---------------------------- MODULE Spec2Model ----------------------------
(***************************************************************************)
(* Passwordless email-code authentication of the recruiter portal:        *)
(* the three request handlers send-code, verify-code and check-session    *)
(* (src/auth.js, src/netlify/functions/verify-code.js) running            *)
(* concurrently against one store with the tables verification_codes and  *)
(* sessions, and an email transport.                                      *)
(*                                                                         *)
(* Every handler is a sequence of steps separated by its awaits: one       *)
(* action per step.  A store call either succeeds or returns {error}      *)
(* without effect (the supabase client reports failures in its result,    *)
(* which is how every call site that looks at a failure reads it); the    *)
(* email transport either delivers or throws (the handler's inner catch). *)
(* Time is counted in minutes.  Strings are sequences of one-character    *)
(* strings, so that trim, toLowerCase, split and the two regular          *)
(* expressions are computed and not assumed.                              *)
(***************************************************************************)
EXTENDS Integers, Sequences, FiniteSets, TLC

VARIABLES
    codes,      \* table verification_codes: sequence of rows, id = index
    sessions,   \* table sessions: set of rows, key session_id
    outbox,     \* mails accepted by the email transport
    now,        \* the clock (minutes)
    ticks,      \* number of clock advances so far
    nextSid,    \* the next fresh value of crypto.randomBytes(32)
    req,        \* the handler invocations in flight, one per slot
    nfail,      \* history: number of store calls that have failed
    matched,    \* history: ids of the code rows a verify-code lookup returned
    issued,     \* history: every session row ever inserted, with its code row
    cookie,     \* the browser: document.cookie, a sequence of name and value
    location,   \* the browser: window.location of the page view
    gate        \* the browser: the page-load gate and its checkAuth call

server == <<codes, sessions, outbox, now, ticks, nextSid, req, nfail, matched, issued>>
browser == <<cookie, location, gate>>
vars == <<server, browser>>

-----------------------------------------------------------------------------
(* Bounds of the model *)

MaxCodes == 2       \* rows of verification_codes
MaxSessions == 2    \* session ids generated
MaxTicks == 2       \* clock advances
MaxFaults == 1      \* failed store calls
NDraws == 1         \* distinct values of Math.random() in a run
MaxClicks == 2      \* clicks on the logout button that redirect, per page view

(* Constants of the program *)

CodeTTLMinutes == 10
SessionTTLHours == 24
MinutesPerHour == 60
CodeMin == 10000
CodeSpan == 90000
CodeDigits == 5

CodeTTL == CodeTTLMinutes
SessionTTL == SessionTTLHours * MinutesPerHour

Slots == {"h1", "h2"}
NoTime == -1
NoRow == 0
NoSid == 0

-----------------------------------------------------------------------------
(* Strings *)

Whitespace == {" "}
Digits == {"0", "1", "2", "3", "4", "5", "6", "7", "8", "9"}

RECURSIVE TrimStart(_)
TrimStart(s) ==
    IF s # <<>> /\ Head(s) \in Whitespace THEN TrimStart(Tail(s)) ELSE s

RECURSIVE TrimEnd(_)
TrimEnd(s) ==
    IF s # <<>> /\ s[Len(s)] \in Whitespace
    THEN TrimEnd(SubSeq(s, 1, Len(s) - 1))
    ELSE s

Trim(s) == TrimEnd(TrimStart(s))

LowerChar(c) ==
    CASE c = "A" -> "a"
      [] c = "B" -> "b"
      [] c = "C" -> "c"
      [] c = "X" -> "x"
      [] OTHER -> c

ToLowerCase(s) == [i \in 1..Len(s) |-> LowerChar(s[i])]

\* email.trim().toLowerCase()
NormalizeTrimOnly(s) == Trim(s)
Normalize(s) == ToLowerCase(Trim(s))

\* /^[^\s@]+@[^\s@]+\.[^\s@]+$/
EmailRegexTest(s) ==
    \E i, j \in 1..Len(s) :
        /\ s[i] = "@"
        /\ s[j] = "."
        /\ 1 < i
        /\ i + 1 < j
        /\ j < Len(s)
        /\ \A k \in (1..Len(s)) \ {i} : s[k] \notin (Whitespace \cup {"@"})

\* /^\d{5}$/
CodeRegexTest(c) == Len(c) = CodeDigits /\ \A i \in 1..Len(c) : c[i] \in Digits

DigitChar(d) ==
    CASE d = 0 -> "0" [] d = 1 -> "1" [] d = 2 -> "2" [] d = 3 -> "3"
      [] d = 4 -> "4" [] d = 5 -> "5" [] d = 6 -> "6" [] d = 7 -> "7"
      [] d = 8 -> "8" [] OTHER -> "9"

\* Number.prototype.toString() of a non-negative integer
RECURSIVE NumberToString(_)
NumberToString(n) ==
    IF n < 10 THEN <<DigitChar(n)>>
    ELSE Append(NumberToString(n \div 10), DigitChar(n % 10))

\* Math.floor(10000 + Math.random() * 90000).toString(), Math.random() = k/NDraws
RandomCode(k) == NumberToString(CodeMin + ((k * CodeSpan) \div NDraws))

\* String.prototype.split(',')
RECURSIVE Split(_, _)
Split(s, acc) ==
    IF s = <<>> THEN <<acc>>
    ELSE IF Head(s) = "," THEN <<acc>> \o Split(Tail(s), <<>>)
    ELSE Split(Tail(s), Append(acc, Head(s)))

-----------------------------------------------------------------------------
(* Whitelist Guard *)

\* process.env.APPROVED_RECRUITER_EMAILS = "A@x.c, c@x.c"
ApprovedEnv == <<"A", "@", "x", ".", "c", ",", " ", "c", "@", "x", ".", "c">>

\* ...split(',').map(e => e.trim().toLowerCase())
ApprovedEmails ==
    LET parts == Split(ApprovedEnv, <<>>)
    IN  {Normalize(parts[i]) : i \in 1..Len(parts)}

IsApprovedAll(e) == TRUE
IsApproved(e) == e \in ApprovedEmails

-----------------------------------------------------------------------------
(* Responses: statusCode and the fields of the JSON body *)

NoResponse ==
    [status |-> 0, error |-> "", success |-> FALSE, warning |-> FALSE,
     valid |-> "absent", reason |-> "", sessionId |-> NoSid, email |-> <<>>,
     expiresAt |-> NoTime]

Reply(status, body) == body @@ [NoResponse EXCEPT !.status = status]

MethodNotAllowed == Reply(405, [error |-> "Method not allowed"])

\* send-code
EmailRequired == Reply(400, [error |-> "Email is required"])
InvalidEmailFormat == Reply(400, [error |-> "Invalid email format"])
NotAuthorized == Reply(403, [error |-> "Your email is not authorized"])
CodeStoreFailed == Reply(500, [error |-> "Failed to generate verification code"])
CodeSent == Reply(200, [success |-> TRUE])
CodeSentNoWarning == Reply(200, [success |-> TRUE])
CodeSavedWarning == Reply(200, [success |-> TRUE, warning |-> TRUE])

\* verify-code
FieldsRequired == Reply(400, [error |-> "Email and code are required"])
InvalidCodeFormat == Reply(400, [error |-> "Invalid code format"])
InvalidCode == Reply(401, [error |-> "Invalid verification code"])
ExpiredCode == Reply(401, [error |-> "Verification code has expired"])
MarkUsedFailed == Reply(500, [error |-> "Failed to verify code"])
SessionCreateFailedWithId(sid, exp) ==
    Reply(500, [error |-> "Failed to create session", sessionId |-> sid])
SessionCreateFailed(sid, exp) == Reply(500, [error |-> "Failed to create session"])
Verified(sid, exp) ==
    Reply(200, [success |-> TRUE, sessionId |-> sid, expiresAt |-> exp])

\* check-session
SessionIdRequired == Reply(400, [error |-> "Session ID is required"])
SessionNotFound404 == Reply(404, [valid |-> "false", reason |-> "Session not found"])
SessionNotFound == Reply(200, [valid |-> "false", reason |-> "Session not found"])
SessionExpired == Reply(200, [valid |-> "false", reason |-> "Session expired"])
CheckSessionFailed == Reply(500, [error |-> "Failed to check session"])
SessionCheckFailed(email, exp) == CheckSessionFailed
SessionValid(email, exp) ==
    Reply(200, [valid |-> "true", email |-> email, expiresAt |-> exp])

-----------------------------------------------------------------------------
(* The store *)

\* insert into verification_codes; created_at is the store's clock
InsertCode(tbl, email, code, exp, t) ==
    Append(tbl, [email |-> email, code |-> code, createdAt |-> t,
                 expiresAt |-> exp, used |-> FALSE, usedAt |-> NoTime])

\* .eq('email', e).eq('code', c).eq('used', false)
MatchingCodesAnyUsed(tbl, email, code) ==
    {i \in DOMAIN tbl : tbl[i].email = email /\ tbl[i].code = code}
MatchingCodes(tbl, email, code) ==
    {i \in DOMAIN tbl :
        tbl[i].email = email /\ tbl[i].code = code /\ tbl[i].used = FALSE}

\* .order('created_at', {ascending: false}).limit(1): a row no other matching
\* row is newer than (the store orders equal created_at as it likes)
AnyMatchingCodes(tbl, email, code) == MatchingCodes(tbl, email, code)
NewestCodes(tbl, email, code) ==
    LET m == MatchingCodes(tbl, email, code)
    IN  {i \in m : \A j \in m : tbl[j].createdAt <= tbl[i].createdAt}

\* .update({used: true}).eq('id', id)
MarkExpiredNoop(tbl, id) == tbl
MarkExpired(tbl, id) == [tbl EXCEPT ![id].used = TRUE]

\* .update({used: true, used_at: now}).eq('id', id)
MarkUsedNoop(tbl, id, t) == tbl
MarkUsed(tbl, id, t) == [tbl EXCEPT ![id].used = TRUE, ![id].usedAt = t]

\* insert into sessions
InsertSession(tbl, sid, email, exp) ==
    tbl \cup {[sessionId |-> sid, email |-> email, expiresAt |-> exp,
               lastAccessed |-> NoTime]}

\* .eq('session_id', sid).single()
FindSession(tbl, sid) == {s \in tbl : s.sessionId = sid}

\* .delete().eq('session_id', sid)
DeleteSessionNoop(tbl, sid) == tbl
DeleteSession(tbl, sid) == {s \in tbl : s.sessionId # sid}

\* .update({last_accessed: now}).eq('session_id', sid)
TouchSessionExtend(tbl, sid, t) ==
    {IF s.sessionId = sid
     THEN [s EXCEPT !.lastAccessed = t, !.expiresAt = t + SessionTTL] ELSE s : s \in tbl}
TouchSessionUpsert(tbl, sid, t) ==
    {s \in tbl : s.sessionId # sid}
        \cup {[sessionId |-> sid, email |-> <<>>, expiresAt |-> NoTime, lastAccessed |-> t]}
TouchSession(tbl, sid, t) ==
    {IF s.sessionId = sid THEN [s EXCEPT !.lastAccessed = t] ELSE s : s \in tbl}

\* now > expiresAt
IsExpired(t, exp) == t > exp

\* new Date() + 10 minutes, new Date() + 24 hours
CodeExpiry(t) == t + CodeTTL
SessionExpiryShort(t) == t + CodeTTL
SessionExpiry(t) == t + SessionTTL

-----------------------------------------------------------------------------
(* Handler invocations *)

\* A slot holds one invocation: its position, the handler's local constants
\* while it runs, and its response once it has returned
Idle ==
    [kind |-> "none", pc |-> "idle", email |-> <<>>, code |-> <<>>,
     expiresAt |-> NoTime, row |-> NoRow, sid |-> NoSid, res |-> NoResponse]

\* return {statusCode, body}: the response is out; of the invocation the slot
\* keeps what the request asked (email and code as the handler read them, the
\* session id asked about)
Finish(r, response) ==
    [Idle EXCEPT !.kind = r.kind, !.pc = "done", !.res = response,
                 !.email = IF r.kind = "check" THEN <<>> ELSE r.email,
                 !.code = r.code,
                 !.sid = IF r.kind = "check" THEN r.sid ELSE NoSid]

Asked(kind, email, code, sid) ==
    [Idle EXCEPT !.kind = kind, !.email = email, !.code = code, !.sid = sid]

\* A response is delivered as soon as the handler returns: no other step
\* comes between a return and its delivery
Quiet == \A h \in Slots : req[h].pc # "done"

Free(h) == req[h].pc = "idle"

\* The platform starts an invocation in the first free slot (the slots are
\* interchangeable: "h2" is taken only while "h1" is busy)
CanStart(h) == Quiet /\ Free(h) /\ (h = "h2" => ~Free("h1"))

\* Slot h is at position pc of handler kind
At(h, kind, pc) == Quiet /\ req[h].kind = kind /\ req[h].pc = pc

InFlight(kind, pcs) == {h \in Slots : req[h].kind = kind /\ req[h].pc \in pcs}

\* A store call may fail while the model's budget of failures lasts
MayFail(ok) == ok \/ nfail < MaxFaults
CountFail(ok) == nfail' = IF ok THEN nfail ELSE nfail + 1

(* Inputs *)
Alice == <<"a", "@", "x", ".", "c">>
AliceRaw == <<" ", "A", "@", "X", ".", "c", " ">>
AliceShout == <<"A", "@", "X", ".", "C">>
Bob == <<"b", "@", "x", ".", "c">>
Malformed == <<"a", "@", "x">>
Missing == <<>>
ShortCode == <<"1", "2">>
WrongCode == <<"9", "9", "9", "9", "9">>
\* A request that is not a POST is answered before its body is read
SendInputs ==
    {[method |-> "POST", email |-> e] : e \in {Alice, AliceRaw, Bob, Malformed, Missing}}
        \cup {[method |-> "GET", email |-> Missing]}
VerifyInputs ==
    {[method |-> "POST", email |-> e, code |-> c] :
        e \in {Alice, AliceRaw},
        c \in {RandomCode(k) : k \in 0..(NDraws - 1)} \cup {WrongCode, ShortCode}}
        \cup {[method |-> "POST", email |-> Bob, code |-> RandomCode(0)],
              [method |-> "POST", email |-> Alice, code |-> Missing],
              [method |-> "POST", email |-> Missing, code |-> WrongCode],
              [method |-> "GET", email |-> Missing, code |-> Missing]}
CheckInputs ==
    {[method |-> "POST", sessionId |-> s] : s \in 0..MaxSessions}
        \cup {[method |-> "GET", sessionId |-> NoSid]}

-----------------------------------------------------------------------------
(* send-code *)

\* The checks before the store is touched: method, body, format, whitelist
SendCodeReject(method, email) ==
    IF method # "POST" THEN MethodNotAllowed
    ELSE IF email = <<>> THEN EmailRequired
    ELSE IF ~EmailRegexTest(Normalize(email)) THEN InvalidEmailFormat
    ELSE IF ~IsApproved(Normalize(email)) THEN NotAuthorized
    ELSE NoResponse

\* Entry, code and expiry, then await supabase.from('verification_codes').insert(...)
SendCode(h, method, email, k, ok) ==
    LET rej == SendCodeReject(method, email)
        n == Normalize(email)
        c == RandomCode(k)
    IN  /\ CanStart(h)
        /\ IF rej # NoResponse
           THEN /\ k = 0 /\ ok
                /\ req' = [req EXCEPT ![h] =
                       Finish(Asked("send", IF rej \in {MethodNotAllowed, EmailRequired}
                                            THEN <<>> ELSE n, <<>>, NoSid), rej)]
                /\ UNCHANGED <<codes, nfail>>
           ELSE /\ Len(codes) < MaxCodes
                /\ MayFail(ok)
                /\ CountFail(ok)
                /\ IF ok
                   THEN /\ codes' = InsertCode(codes, n, c, CodeExpiry(now), now)
                        /\ req' = [req EXCEPT ![h] =
                               [Asked("send", n, c, NoSid) EXCEPT !.pc = "sc_dispatch"]]
                   ELSE /\ codes' = codes
                        /\ req' = [req EXCEPT ![h] =
                               Finish(Asked("send", n, c, NoSid), CodeStoreFailed)]
        /\ UNCHANGED <<sessions, outbox, now, ticks, nextSid, matched, issued,
                    browser>>

\* await resend.emails.send(...), inside the inner try
SendCodeDispatch(h, ok) ==
    LET r == req[h]
    IN  /\ At(h, "send", "sc_dispatch")
        /\ IF ok
           THEN /\ outbox' = Append(outbox, [to |-> r.email, code |-> r.code])
                /\ req' = [req EXCEPT ![h] = Finish(r, CodeSent)]
           ELSE /\ outbox' = outbox
                /\ req' = [req EXCEPT ![h] = Finish(r, CodeSavedWarning)]
        /\ UNCHANGED <<codes, sessions, now, ticks, nextSid, nfail, matched, issued,
                    browser>>

-----------------------------------------------------------------------------
(* verify-code *)

\* The checks before the store is touched: method, body, code format
VerifyCodeReject(method, email, code) ==
    IF method # "POST" THEN MethodNotAllowed
    ELSE IF email = <<>> \/ code = <<>> THEN FieldsRequired
    ELSE IF ~CodeRegexTest(code) THEN InvalidCodeFormat
    ELSE NoResponse

\* verificationData found: now = new Date() is compared with its expires_at
VerifyCodeFound(email, code, id, t) ==
    [Asked("verify", email, code, NoSid) EXCEPT
                 !.row = id,
                 !.pc = IF IsExpired(t, codes[id].expiresAt) THEN "vc_expire" ELSE "vc_mark"]

\* Entry, then await supabase.from('verification_codes').select('*')...single():
\* fetchError or no row is invalid
VerifyCodeLookup(h, method, email, code, ok) ==
    LET rej == VerifyCodeReject(method, email, code)
        n == Normalize(email)
        hits == NewestCodes(codes, n, code)
    IN  /\ CanStart(h)
        /\ IF rej # NoResponse
           THEN /\ ok
                /\ req' = [req EXCEPT ![h] =
                       Finish(Asked("verify", IF rej = InvalidCodeFormat THEN n ELSE <<>>,
                                    IF rej = InvalidCodeFormat THEN code ELSE <<>>, NoSid),
                              rej)]
                /\ UNCHANGED <<nfail, matched>>
           ELSE /\ (nextSid - 1) + Cardinality(InFlight("verify", {"vc_mark", "vc_insert"}))
                       < MaxSessions
                /\ MayFail(ok)
                /\ CountFail(ok)
                /\ IF ok /\ hits # {}
                   THEN \E id \in hits :
                            /\ req' = [req EXCEPT ![h] = VerifyCodeFound(n, code, id, now)]
                            /\ matched' = matched \cup {id}
                   ELSE /\ req' = [req EXCEPT ![h] =
                               Finish(Asked("verify", n, code, NoSid), InvalidCode)]
                        /\ matched' = matched
        /\ UNCHANGED <<codes, sessions, outbox, now, ticks, nextSid, issued,
                    browser>>

\* Expired: await update({used: true}), its result is not looked at
VerifyCodeExpire(h, ok) ==
    LET r == req[h]
    IN  /\ At(h, "verify", "vc_expire")
        /\ MayFail(ok)
        /\ CountFail(ok)
        /\ codes' = IF ok THEN MarkExpired(codes, r.row) ELSE codes
        /\ req' = [req EXCEPT ![h] = Finish(r, ExpiredCode)]
        /\ UNCHANGED <<sessions, outbox, now, ticks, nextSid, matched, issued,
                    browser>>

\* await update({used: true, used_at})
VerifyCodeMarkUsed(h, ok) ==
    LET r == req[h]
    IN  /\ At(h, "verify", "vc_mark")
        /\ MayFail(ok)
        /\ CountFail(ok)
        /\ IF ok
           THEN /\ codes' = MarkUsed(codes, r.row, now)
                /\ req' = [req EXCEPT ![h].pc = "vc_insert"]
           ELSE /\ codes' = codes
                /\ req' = [req EXCEPT ![h] = Finish(r, MarkUsedFailed)]
        /\ UNCHANGED <<sessions, outbox, now, ticks, nextSid, matched, issued,
                    browser>>

\* The session id and its expiry, then await supabase.from('sessions').insert(...)
VerifyCodeInsertSession(h, ok) ==
    LET r == [req[h] EXCEPT !.sid = nextSid, !.expiresAt = SessionExpiry(now)]
    IN  /\ At(h, "verify", "vc_insert")
        /\ MayFail(ok)
        /\ CountFail(ok)
        /\ IF ok
           THEN /\ sessions' = InsertSession(sessions, r.sid, r.email, r.expiresAt)
                /\ issued' = issued \cup {[sessionId |-> r.sid, email |-> r.email,
                                           expiresAt |-> r.expiresAt, row |-> r.row]}
                /\ req' = [req EXCEPT ![h] = Finish(r, Verified(r.sid, r.expiresAt))]
           ELSE /\ sessions' = sessions
                /\ issued' = issued
                /\ req' = [req EXCEPT ![h] =
                       Finish(r, SessionCreateFailed(r.sid, r.expiresAt))]
        /\ nextSid' = IF ok THEN nextSid + 1 ELSE nextSid
        /\ UNCHANGED <<codes, outbox, now, ticks, matched,
                    browser>>

-----------------------------------------------------------------------------
(* check-session *)

\* The checks before the store is touched: method, body
CheckSessionReject(method, sid) ==
    IF method # "POST" THEN MethodNotAllowed
    ELSE IF sid = NoSid THEN SessionIdRequired
    ELSE NoResponse

\* sessionData found: now = new Date() is compared with its expires_at
CheckSessionFound(s, t) ==
    [Asked("check", <<>>, <<>>, s.sessionId) EXCEPT
                 !.email = s.email, !.expiresAt = s.expiresAt,
                 !.pc = IF IsExpired(t, s.expiresAt) THEN "cs_delete" ELSE "cs_touch"]

\* Entry, then await supabase.from('sessions').select('*')...single():
\* fetchError or no row is not-found
CheckSessionLookup(h, method, sid, ok) ==
    LET rej == CheckSessionReject(method, sid)
        hits == FindSession(sessions, sid)
    IN  /\ CanStart(h)
        /\ IF rej # NoResponse
           THEN /\ ok
                /\ req' = [req EXCEPT ![h] = Finish(Asked("check", <<>>, <<>>, sid), rej)]
                /\ UNCHANGED nfail
           ELSE /\ MayFail(ok)
                /\ CountFail(ok)
                /\ IF ok /\ hits # {}
                   THEN \E s \in hits : req' = [req EXCEPT ![h] = CheckSessionFound(s, now)]
                   ELSE req' = [req EXCEPT ![h] =
                            Finish(Asked("check", <<>>, <<>>, sid), SessionNotFound)]
        /\ UNCHANGED <<codes, sessions, outbox, now, ticks, nextSid, matched, issued,
                    browser>>

\* Expired: await delete(), its result is not looked at
CheckSessionDelete(h, ok) ==
    LET r == req[h]
    IN  /\ At(h, "check", "cs_delete")
        /\ MayFail(ok)
        /\ CountFail(ok)
        /\ sessions' = IF ok THEN DeleteSession(sessions, r.sid) ELSE sessions
        /\ req' = [req EXCEPT ![h] = Finish(r, SessionExpired)]
        /\ UNCHANGED <<codes, outbox, now, ticks, nextSid, matched, issued,
                    browser>>

\* Valid: await update({last_accessed}), its result is not looked at
CheckSessionTouch(h, ok) ==
    LET r == req[h]
    IN  /\ At(h, "check", "cs_touch")
        /\ MayFail(ok)
        /\ CountFail(ok)
        /\ sessions' = IF ok THEN TouchSession(sessions, r.sid, now) ELSE sessions
        /\ req' = [req EXCEPT ![h] = Finish(r, SessionValid(r.email, r.expiresAt))]
        /\ UNCHANGED <<codes, outbox, now, ticks, nextSid, matched, issued,
                    browser>>

-----------------------------------------------------------------------------
(* The Client Gate: the script of the protected pages, in one browser tab *)

LoginFile == <<"l", "o", "g", "i", "n", ".", "h", "t", "m", "l">>
LoginPath == <<"/">> \o LoginFile
PortalPath == <<"/", "j", "o", "b", "s", ".", "h", "t", "m", "l">>
RootPath == <<"/">>
NoPath == <<>>
Paths == {LoginPath, PortalPath, RootPath}
CookieName == "recruiter_session"

\* String.prototype.includes
Includes(s, sub) ==
    \E i \in 1..(Len(s) - Len(sub) + 1) : SubSeq(s, i, i + Len(sub) - 1) = sub

\* window.location.pathname.includes('login.html')
OnLoginPageNever(path) == FALSE
OnLoginPage(path) == Includes(path, LoginFile)

\* document.cookie.split('; ').find(row => row.startsWith('recruiter_session='))
IsSessionCookie(c) == c.name = CookieName
FindSessionCookie(jar) == SelectSeq(jar, IsSessionCookie)

\* document.cookie = 'recruiter_session=; expires=Thu, 01 Jan 1970 ...; path=/;'
IsOtherCookie(c) == c.name # CookieName
clearSession(jar) == SelectSeq(jar, IsOtherCookie)

\* if (!pathname.includes('login.html')) window.location.href = '/login.html'
redirectToLogin(loc) ==
    IF ~OnLoginPage(loc.pathname)
    THEN [loc EXCEPT !.href = LoginPath, !.sets = loc.sets + 1]
    ELSE loc

\* What fetch and response.json() can give checkAuth: a response of
\* check-session, a non-JSON body, or a rejected fetch
FetchOutcomes ==
    {[kind |-> "response", res |-> r] :
        r \in {SessionIdRequired, SessionNotFound, SessionExpired, CheckSessionFailed}
              \cup {SessionValid(Alice, SessionTTL)}}
        \cup {[kind |-> k, res |-> NoResponse] : k \in {"not-json", "network-error"}}

\* response.ok, and the truth value of data.valid
ResponseOk(res) == res.status \in 200..299
Truthy(v) == v = "true"

\* A fetch outcome that passes if (!response.ok || !data.valid) without a throw
AcceptedAnyResponse(o) == o.kind = "response"
Accepted(o) == o.kind = "response" /\ ResponseOk(o.res) /\ Truthy(o.res.valid)

NoOutcome == [kind |-> "none", res |-> NoResponse]
GateIdle ==
    [pc |-> "idle", sessionId |-> NoSid, outcome |-> NoOutcome, result |-> "none",
     overlay |-> FALSE]

\* A new page view of path p, reached by the way via
PageView(p, via) == [pathname |-> p, href |-> NoPath, sets |-> 0, via |-> via]

\* The DOMContentLoaded listener of a page view, up to the fetch of checkAuth
Loaded(view) ==
    LET found == FindSessionCookie(cookie)
    IN  IF OnLoginPage(view.pathname)
        THEN /\ location' = view
             /\ gate' = GateIdle
        ELSE IF found = <<>>
        THEN /\ location' = redirectToLogin(view)
             /\ gate' = [GateIdle EXCEPT !.pc = "done", !.result = "false",
                                         !.overlay = TRUE]
        ELSE /\ location' = view
             /\ gate' = [GateIdle EXCEPT !.pc = "fetching", !.overlay = TRUE,
                                         !.sessionId = found[1].value]

\* The user opens a page
DOMContentLoaded(p) ==
    /\ Loaded(PageView(p, "user"))
    /\ UNCHANGED <<cookie, server>>

\* The browser follows an assignment to window.location.href
FollowRedirect ==
    /\ location.href # NoPath
    /\ Loaded(PageView(location.href, "redirect"))
    /\ UNCHANGED <<cookie, server>>

\* checkAuth after its awaits: fetch and response.json() have settled
checkAuth(o) ==
    /\ gate.pc = "fetching"
    /\ IF Accepted(o)
       THEN /\ gate' = [gate EXCEPT !.pc = "done", !.outcome = o, !.result = "true",
                                    !.overlay = FALSE]
            /\ UNCHANGED <<cookie, location>>
       ELSE /\ gate' = [gate EXCEPT !.pc = "done", !.outcome = o, !.result = "false"]
            /\ cookie' = clearSession(cookie)
            /\ location' = redirectToLogin(location)
    /\ UNCHANGED server

\* A click on the logout button
logout ==
    /\ location.sets < MaxClicks
    /\ cookie' = clearSession(cookie)
    /\ location' = redirectToLogin(location)
    /\ UNCHANGED <<gate, server>>

\* The login page stores the session id that verify-code returned
StoreSessionCookie(v) ==
    /\ OnLoginPage(location.pathname)
    /\ cookie' = Append(clearSession(cookie), [name |-> CookieName, value |-> v])
    /\ UNCHANGED <<location, gate, server>>

-----------------------------------------------------------------------------
(* The platform and the clock *)

\* The response is delivered; the slot is free for the next invocation
Return(h) ==
    /\ req[h].pc = "done"
    /\ req' = [req EXCEPT ![h] = Idle]
    /\ UNCHANGED <<codes, sessions, outbox, now, ticks, nextSid, nfail, matched, issued,
                    browser>>

TickSteps == {CodeTTL, SessionTTL}
Tick(d) ==
    /\ Quiet
    /\ ticks < MaxTicks
    /\ now' = now + d
    /\ ticks' = ticks + 1
    /\ UNCHANGED <<codes, sessions, outbox, nextSid, req, nfail, matched, issued,
                    browser>>

Init ==
    /\ codes = <<>>
    /\ sessions = {}
    /\ outbox = <<>>
    /\ now = 0
    /\ ticks = 0
    /\ nextSid = 1
    /\ req = [h \in Slots |-> Idle]
    /\ nfail = 0
    /\ matched = {}
    /\ issued = {}
    /\ cookie = <<>>
    /\ location = PageView(LoginPath, "user")
    /\ gate = GateIdle

\* The steps of the three handlers
SendCodeStep(h) ==
    \/ \E i \in SendInputs, k \in 0..(NDraws - 1), ok \in BOOLEAN :
           SendCode(h, i.method, i.email, k, ok)
    \/ \E ok \in BOOLEAN : SendCodeDispatch(h, ok)

VerifyCodeStep(h) ==
    \/ \E i \in VerifyInputs, ok \in BOOLEAN :
           VerifyCodeLookup(h, i.method, i.email, i.code, ok)
    \/ \E ok \in BOOLEAN : VerifyCodeExpire(h, ok)
    \/ \E ok \in BOOLEAN : VerifyCodeMarkUsed(h, ok)
    \/ \E ok \in BOOLEAN : VerifyCodeInsertSession(h, ok)

CheckSessionStep(h) ==
    \/ \E i \in CheckInputs, ok \in BOOLEAN :
           CheckSessionLookup(h, i.method, i.sessionId, ok)
    \/ \E ok \in BOOLEAN : CheckSessionDelete(h, ok)
    \/ \E ok \in BOOLEAN : CheckSessionTouch(h, ok)

GateStep ==
    \/ \E p \in Paths : DOMContentLoaded(p)
    \/ FollowRedirect
    \/ \E o \in FetchOutcomes : checkAuth(o)
    \/ logout
    \/ \E v \in 0..MaxSessions : StoreSessionCookie(v)

\* Any two invocations of any handlers at a time, and the browser
Next ==
    \/ \E h \in Slots : Return(h)
    \/ \E h \in Slots : SendCodeStep(h)
    \/ \E h \in Slots : VerifyCodeStep(h)
    \/ \E h \in Slots : CheckSessionStep(h)
    \/ \E d \in TickSteps : Tick(d)
    \/ GateStep

Spec == Init /\ [][Next]_vars

\* One identity in several raw forms: every code is asked for as " A@X.c "
\* and redeemed as "a@x.c" or "A@X.C"
IdentityNext ==
    \/ \E h \in Slots : Return(h)
    \/ \E h \in Slots, k \in 0..(NDraws - 1), ok \in BOOLEAN :
           SendCode(h, "POST", AliceRaw, k, ok)
    \/ \E h \in Slots, ok \in BOOLEAN : SendCodeDispatch(h, ok)
    \/ \E h \in Slots, e \in {Alice, AliceShout}, k \in 0..(NDraws - 1), ok \in BOOLEAN :
           VerifyCodeLookup(h, "POST", e, RandomCode(k), ok)
    \/ \E h \in Slots, ok \in BOOLEAN : VerifyCodeExpire(h, ok)
    \/ \E h \in Slots, ok \in BOOLEAN : VerifyCodeMarkUsed(h, ok)
    \/ \E h \in Slots, ok \in BOOLEAN : VerifyCodeInsertSession(h, ok)
    \/ \E d \in TickSteps : Tick(d)

IdentitySpec == Init /\ [][IdentityNext]_vars

\* The browser alone, with every outcome the session check can have
GateNext == GateStep

GateSpec == Init /\ [][GateNext]_vars

\* Issuing and redeeming codes: any two invocations of send-code and verify-code
RedeemNext ==
    \/ \E h \in Slots : Return(h)
    \/ \E h \in Slots : SendCodeStep(h)
    \/ \E h \in Slots : VerifyCodeStep(h)
    \/ \E d \in TickSteps : Tick(d)

RedeemSpec == Init /\ [][RedeemNext]_vars

\* The life of a session: one invocation of send-code or verify-code at a
\* time, any two invocations at a time when one of them is check-session
SessionNext ==
    \/ \E h \in Slots : Return(h)
    \/ SendCodeStep("h1")
    \/ VerifyCodeStep("h1")
    \/ \E h \in Slots : CheckSessionStep(h)
    \/ \E d \in TickSteps : Tick(d)

SessionSpec == Init /\ [][SessionNext]_vars

-----------------------------------------------------------------------------
(* Vocabulary of the properties *)

\* Slot h starts an invocation of handler k in this step (entry and first await)
Began(h, k) == req[h].pc = "idle" /\ req'[h].pc # "idle" /\ req'[h].kind = k

\* Slot h takes the step that follows position pc of handler k
Moved(h, k, pc) == req[h].kind = k /\ req[h].pc = pc /\ req'[h].pc # pc

\* The store call of this step succeeded
CallOk == nfail' = nfail

Returned(h, k) == req[h].kind = k /\ req[h].pc = "done"

RowsOf(email, code) == MatchingCodesAnyUsed(codes, email, code)
SessionsFrom(id) == {s \in issued : s.row = id}
IssuedIds == {s.sessionId : s \in issued}

\* checkAuth returns in this step, its fetch settled
Settled == gate.pc = "fetching" /\ gate'.outcome # NoOutcome

-----------------------------------------------------------------------------
(* C1 *)

\* C1: of the verify-code requests that match one code row, concurrent or
\* not, at most one inserts a Session (and so returns a sessionId): no code
\* row is the source of two sessions.  Stated for the runs in which no
\* store call fails, where the claim has it for every interleaving.
C1_OneSessionPerCode ==
    nfail = 0 => \A s1, s2 \in issued : s1.row = s2.row => s1 = s2

(* C2 *)

C3_NeverMatchedAgain ==
    [][\A h \in Slots :
        (Began(h, "verify") /\ req'[h].row # NoRow /\ nfail' = 0) =>
            req'[h].row \notin matched
      ]_vars

(* C4 *)

\* C4: a send-code request for a well-formed email that is not whitelisted is
\* answered 403, and no verification_codes row and no mail ever carries an
\* email that is not whitelisted: such a request inserts and sends nothing.
C4_NotWhitelistedRejected ==
    /\ \A h \in Slots :
           (req[h].kind = "send" /\ EmailRegexTest(req[h].email)
                /\ req[h].email \notin ApprovedEmails) =>
               /\ req[h].pc = "done"
               /\ req[h].res.status = 403
               /\ req[h].res.success = FALSE
    /\ \A id \in DOMAIN codes : codes[id].email \in ApprovedEmails
    /\ \A m \in DOMAIN outbox : outbox[m].to \in ApprovedEmails

\* C4 witness: send-code for b@x.c, well-formed and not whitelisted, answered 403.
C4_Witness ==
    \E h \in Slots :
        /\ Returned(h, "send") /\ req[h].email = Bob
        /\ Bob \notin ApprovedEmails /\ EmailRegexTest(Bob)
        /\ req[h].res.status = 403

(* C5 *)

C6_FailureGivesNoSession ==
    [][\A h \in Slots :
        /\ (Moved(h, "verify", "vc_mark") /\ ~CallOk) =>
               /\ req'[h].pc = "done"
               /\ req'[h].res.status = 500
               /\ req'[h].res.sessionId = NoSid
               /\ req'[h].res.success = FALSE
               /\ sessions' = sessions /\ issued' = issued
        /\ (Moved(h, "verify", "vc_insert") /\ ~CallOk) =>
               /\ req'[h].pc = "done"
               /\ req'[h].res.status = 500
               /\ req'[h].res.sessionId = NoSid
               /\ req'[h].res.success = FALSE
               /\ sessions' = sessions /\ issued' = issued
               /\ FindSession(sessions', nextSid) = {}
               /\ codes'[req[h].row].used
      ]_vars

\* C6 witness: a request answered 500 after its session insert failed, and
\* the row it had marked is used with no session from it.
C6_Witness ==
    \E h \in Slots :
        /\ Returned(h, "verify")
        /\ req[h].res.error = "Failed to create session"
        /\ req[h].res.status = 500
        /\ \E id \in DOMAIN codes :
               codes[id].used /\ codes[id].usedAt # NoTime /\ SessionsFrom(id) = {}

(* C7 *)

C8_NotFoundChangesNothing ==
    [][\A h \in Slots :
        (Began(h, "check") /\ req'[h].sid # NoSid
             /\ req'[h].res # MethodNotAllowed
             /\ FindSession(sessions, req'[h].sid) = {}) =>
            /\ req'[h].pc = "done"
            /\ req'[h].res.status = 200
            /\ req'[h].res.valid = "false"
            /\ req'[h].res.reason = "Session not found"
            /\ sessions' = sessions
            /\ codes' = codes
      ]_vars

\* C8 witness: check-session on an id that was never issued answered not-found.
C8_Witness ==
    \E h \in Slots :
        /\ Returned(h, "check") /\ req[h].res = SessionNotFound
        /\ req[h].sid # NoSid
        /\ req[h].sid \notin IssuedIds

(* C9 *)

\* C9: while no store call has failed: send-code for a whitelisted email
\* stores an unused row for it that expires 10 minutes after the request; a
\* verify-code that finds the row at or before that expiry marks it, inserts
\* a Session for the same email expiring 24 hours after the redemption and
\* returns its id and expiry; the Session row stays in the store, unchanged
\* in email and expiry, as long as now <= its expiresAt, and a check-session
\* that looks it up then answers valid:true with that email and expiry.
C9_HappyPath ==
    /\ [](\A s \in issued :
              now <= s.expiresAt =>
                  \E r \in sessions : /\ r.sessionId = s.sessionId
                                      /\ r.email = s.email
                                      /\ r.expiresAt = s.expiresAt)
    /\ [][nfail' = 0 =>
          \A h \in Slots :
            /\ (Began(h, "send") /\ req'[h].email \in ApprovedEmails
                    /\ req'[h].res # MethodNotAllowed) =>
                   /\ Len(codes') = Len(codes) + 1
                   /\ codes'[Len(codes')].email = req'[h].email
                   /\ codes'[Len(codes')].code = req'[h].code
                   /\ codes'[Len(codes')].expiresAt = now + CodeTTLMinutes
                   /\ codes'[Len(codes')].used = FALSE
            /\ (Began(h, "verify") /\ req'[h].res # MethodNotAllowed
                    /\ \E id \in DOMAIN codes :
                           /\ codes[id].email = req'[h].email
                           /\ codes[id].code = req'[h].code
                           /\ ~codes[id].used
                           /\ now <= codes[id].expiresAt) =>
                   /\ req'[h].pc = "vc_mark"
                   /\ codes[req'[h].row].email = req'[h].email
                   /\ codes[req'[h].row].code = req'[h].code
            /\ Moved(h, "verify", "vc_mark") =>
                   /\ req'[h].pc = "vc_insert"
                   /\ codes'[req[h].row].used
            /\ Moved(h, "verify", "vc_insert") =>
                   /\ req'[h].res.status = 200
                   /\ req'[h].res.success
                   /\ req'[h].res.sessionId \notin IssuedIds \cup {NoSid}
                   /\ req'[h].res.expiresAt = now + SessionTTLHours * MinutesPerHour
                   /\ [sessionId |-> req'[h].res.sessionId,
                       email |-> codes[req[h].row].email,
                       expiresAt |-> req'[h].res.expiresAt, lastAccessed |-> NoTime]
                          \in sessions'
            /\ (Began(h, "check") /\ req'[h].res # MethodNotAllowed
                    /\ \E s \in issued : s.sessionId = req'[h].sid /\ now <= s.expiresAt) =>
                   req'[h].pc = "cs_touch"
            /\ Moved(h, "check", "cs_touch") =>
                   /\ req'[h].res.status = 200
                   /\ req'[h].res.valid = "true"
                   /\ \E s \in issued : /\ s.sessionId = req[h].sid
                                        /\ req'[h].res.email = s.email
                                        /\ req'[h].res.expiresAt = s.expiresAt
                                        /\ s.email = codes[s.row].email
         ]_vars

\* C9 witness: with no store failure, check-session answered valid:true for
\* a@x.c at the very minute the session expires, 24 hours after a redemption
\* that was made at the very minute the code expired.
C9_Witness ==
    \E h \in Slots :
        /\ Returned(h, "check") /\ req[h].res.valid = "true"
        /\ req[h].res.email = Alice
        /\ req[h].res.expiresAt = now
        /\ nfail = 0
        /\ \E s \in issued :
               /\ s.sessionId = req[h].sid
               /\ codes[s.row].usedAt = codes[s.row].expiresAt
               /\ s.expiresAt = codes[s.row].usedAt + 1440

(* C10 *)

C11_TouchFailureStillValid ==
    [][\A h \in Slots :
        (Moved(h, "check", "cs_touch") /\ ~CallOk) =>
            /\ req'[h].pc = "done"
            /\ req'[h].res.status = 200
            /\ req'[h].res.valid = "true"
            /\ \E s \in issued : /\ s.sessionId = req[h].sid
                                 /\ req'[h].res.email = s.email
                                 /\ req'[h].res.expiresAt = s.expiresAt
            /\ sessions' = sessions
      ]_vars

\* C11 witness: check-session answered valid:true for a Session whose
\* last_accessed was never written: the one failure of the run was its update.
C11_Witness ==
    \E h \in Slots :
        /\ Returned(h, "check") /\ req[h].res.valid = "true"
        /\ nfail = 1
        /\ \E r \in FindSession(sessions, req[h].sid) :
               /\ r.lastAccessed = NoTime
               /\ req[h].res.email = r.email

(* C12 *)

\* C12: in send-code and verify-code the request whose store call fails
\* (code insert, code lookup, update of the expired or of the valid path,
\* session insert) answers 500: the failure is never answered 401 or 200.
C12_StoreFailureIs500 ==
    [][\A h \in Slots :
        (~CallOk /\ req'[h] # req[h] /\ req'[h].kind \in {"send", "verify"}) =>
            /\ req'[h].pc = "done"
            /\ req'[h].res.status = 500
      ]_vars

(* C13 *)

\* C13: on a page that is not the login page, checkAuth returns true, and
\* then neither clears the credential nor redirects, exactly when its fetch
\* gave a response with an OK status whose body has valid true; for every
\* other outcome (valid false with either reason, status 400 or 500, a body
\* that is not JSON, a rejected fetch) it returns false, no session cookie is
\* left and window.location.href has been set to the login page.
C13_GateTreatsFailuresAlike ==
    [][Settled =>
        /\ ~OnLoginPage(location.pathname)
        /\ gate'.pc = "done"
        /\ IF /\ gate'.outcome.kind = "response"
              /\ gate'.outcome.res.status \in 200..299
              /\ gate'.outcome.res.valid = "true"
           THEN /\ gate'.result = "true"
                /\ cookie' = cookie
                /\ location' = location
           ELSE /\ gate'.result = "false"
                /\ FindSessionCookie(cookie') = <<>>
                /\ location'.href = LoginPath
                /\ location'.sets = location.sets + 1
                /\ location'.pathname = location.pathname
      ]_vars

\* C13 witness: on /jobs.html, with a credential stored, the session check
\* answered 500; checkAuth returned false, the credential is gone and the
\* location is set to the login page.
C13_Witness ==
    /\ location.pathname = PortalPath
    /\ gate.pc = "done" /\ gate.result = "false"
    /\ gate.sessionId # NoSid
    /\ gate.outcome.res.status = 500
    /\ FindSessionCookie(cookie) = <<>>
    /\ location.href = LoginPath

(* C14 *)

\* C14: every code is asked for with the raw email " A@X.c " and every
\* redemption is asked for with another raw form of the same identity,
\* "a@x.c" or "A@X.C".  Every VerificationCode row and every Session row
\* stores the normalized email a@x.c; a send-code whose insert succeeds
\* stores a row for a@x.c; a verify-code whose lookup succeeds while an
\* unused row holds (a@x.c, its code) finds such a row, and goes on to redeem
\* it when the row it found has not expired; the session it inserts is for a@x.c.
C14_SameIdentity ==
    /\ [](/\ \A id \in DOMAIN codes : codes[id].email = Alice
          /\ \A s \in sessions : s.email = Alice
          /\ Alice = Normalize(AliceRaw) /\ Alice = Normalize(AliceShout)
          /\ Alice = Normalize(Alice))
    /\ [][\A h \in Slots :
            /\ (Began(h, "send") /\ CallOk) =>
                   /\ Len(codes') = Len(codes) + 1
                   /\ codes'[Len(codes')].email = Alice
                   /\ req'[h].pc = "sc_dispatch"
            /\ (Began(h, "verify") /\ CallOk
                    /\ \E id \in DOMAIN codes : /\ codes[id].email = Alice
                                                /\ codes[id].code = req'[h].code
                                                /\ ~codes[id].used) =>
                   /\ req'[h].row \in DOMAIN codes
                   /\ codes[req'[h].row].email = Alice
                   /\ now <= codes[req'[h].row].expiresAt => req'[h].pc = "vc_mark"
            /\ (Moved(h, "verify", "vc_insert") /\ CallOk) =>
                   /\ req'[h].res.sessionId # NoSid
                   /\ \E s \in sessions' : /\ s.sessionId = req'[h].res.sessionId
                                           /\ s.email = Alice
       ]_vars

\* C14 witness: a code asked for as " A@X.c " has been redeemed by a request
\* made with another raw form, and the session is for a@x.c.
C14_Witness ==
    /\ AliceRaw \notin {Alice, AliceShout}
    /\ \E h \in Slots :
           /\ Returned(h, "verify") /\ req[h].res.sessionId # NoSid
           /\ \E s \in sessions : /\ s.sessionId = req[h].res.sessionId
                                  /\ s.email = Alice
                                  /\ s.email # AliceRaw

(* C15 *)

\* C15: a verify-code request reaches its Session insert only by the step
\* in which its own mark-used update succeeds, which leaves its row used
\* with used_at set; a request whose update failed returns without touching
\* the sessions table; a request waiting to insert has its row used; and the
\* sessions table gets a row only in the insert step of such a request.
C15_MarkBeforeInsert ==
    /\ [](\A h \in Slots :
              req[h].pc = "vc_insert" =>
                  /\ req[h].kind = "verify"
                  /\ codes[req[h].row].used
                  /\ codes[req[h].row].usedAt # NoTime)
    /\ [][/\ \A h \in Slots :
                /\ (req[h].pc # "vc_insert" /\ req'[h].pc = "vc_insert") =>
                       /\ Moved(h, "verify", "vc_mark") /\ CallOk
                       /\ req'[h].row = req[h].row
                       /\ codes'[req[h].row].used
                       /\ codes'[req[h].row].usedAt = now
                       /\ sessions' = sessions
                /\ (Moved(h, "verify", "vc_mark") /\ ~CallOk) =>
                       /\ req'[h].pc = "done"
                       /\ sessions' = sessions
          /\ sessions' \ sessions # {} =>
                 \E h \in Slots : Moved(h, "verify", "vc_insert") /\ CallOk
       ]_vars

\* C15 witness: a request has marked its row and has not yet inserted: the
\* row is used and no session comes from it.
C15_Witness ==
    \E h \in Slots :
        /\ req[h].kind = "verify" /\ req[h].pc = "vc_insert"
        /\ codes[req[h].row].used
        /\ SessionsFrom(req[h].row) = {}

(* C16 *)

\* C16: the row a verify-code lookup returns is an unused row of the
\* submitted (email, code) that no other unused row of the pair is newer
\* than, and the lookup changes nothing; the update that follows, on the
\* valid path and on the expired path, changes that row only: every other
\* row, the older rows of the pair among them, is left as it was.
C16_NewestRowOnly ==
    [][\A h \in Slots :
        /\ (Began(h, "verify") /\ req'[h].row # NoRow) =>
               /\ req'[h].row \in DOMAIN codes
               /\ codes[req'[h].row].email = req'[h].email
               /\ codes[req'[h].row].code = req'[h].code
               /\ ~codes[req'[h].row].used
               /\ \A j \in DOMAIN codes :
                      (/\ codes[j].email = req'[h].email
                       /\ codes[j].code = req'[h].code
                       /\ ~codes[j].used) =>
                          codes[j].createdAt <= codes[req'[h].row].createdAt
               /\ codes' = codes
        /\ (Moved(h, "verify", "vc_mark") \/ Moved(h, "verify", "vc_expire")) =>
               /\ DOMAIN codes' = DOMAIN codes
               /\ \A j \in DOMAIN codes : j # req[h].row => codes'[j] = codes[j]
               /\ CallOk => codes'[req[h].row].used
      ]_vars

\* C16 witness: two rows hold the same (email, code); the newer one has been
\* redeemed for a session and the older one is still unused.
C16_Witness ==
    \E i, j \in DOMAIN codes :
        /\ codes[i].email = codes[j].email /\ codes[i].code = codes[j].code
        /\ codes[i].createdAt < codes[j].createdAt
        /\ codes[j].used /\ SessionsFrom(j) # {}
        /\ ~codes[i].used /\ i \notin matched

(* C17 *)

\* C17: with check-session calls running concurrently, for the same
\* sessionId among others: no check-session ever answers 500; a Session row
\* that is gone is not brought back by any step, the last_accessed update of
\* a call that had found it included; and a call whose lookup runs when the
\* row is gone answers valid:false.
C17_ConcurrentChecks ==
    /\ [](\A h \in Slots :
              Returned(h, "check") => req[h].res.status \in {200, 400, 405})
    /\ [][/\ \A id \in 1..MaxSessions :
                (id < nextSid /\ FindSession(sessions, id) = {}) =>
                    FindSession(sessions', id) = {}
          /\ \A h \in Slots :
                /\ Moved(h, "check", "cs_touch") =>
                       /\ {s.sessionId : s \in sessions'} = {s.sessionId : s \in sessions}
                       /\ req'[h].res.status = 200
                /\ Moved(h, "check", "cs_delete") =>
                       /\ sessions' \subseteq sessions
                       /\ req'[h].res.status = 200
                /\ (Began(h, "check") /\ FindSession(sessions, req'[h].sid) = {}) =>
                       /\ req'[h].pc = "done"
                       /\ req'[h].res.valid # "true"
       ]_vars

\* C17 witness: a call found the Session valid, another call then found it
\* expired and deleted it, and the first call's last_accessed update came
\* after the deletion: it answered valid:true and the row is still gone.
C17_Witness ==
    \E h \in Slots :
        /\ Returned(h, "check") /\ req[h].res.valid = "true"
        /\ req[h].sid \in IssuedIds
        /\ FindSession(sessions, req[h].sid) = {}
        /\ nfail = 0

(* C18 *)

C19_OnlyWhitelistedHoldSessions ==
    /\ [](/\ \A s \in sessions :
                /\ s.email \in ApprovedEmails
                /\ \E id \in DOMAIN codes : codes[id].email = s.email /\ codes[id].used
          /\ \A id \in DOMAIN codes : codes[id].email \in ApprovedEmails
          /\ \A h \in Slots : Returned(h, "verify") => req[h].res.status # 403)
    /\ [][\A h \in Slots :
            (Began(h, "verify") /\ req'[h].email # <<>>
                 /\ req'[h].email \notin ApprovedEmails) =>
                /\ req'[h].pc = "done"
                /\ req'[h].res \in {InvalidCode, InvalidCodeFormat}
                /\ sessions' = sessions /\ codes' = codes
       ]_vars

\* C19 witness: a session exists for the whitelisted a@x.c, whose code row is
\* used, and a verify-code for b@x.c, not whitelisted, was answered invalid.
C19_Witness ==
    /\ \E s \in sessions : s.email = Alice /\ Alice \in ApprovedEmails
    /\ \E h \in Slots :
           /\ Returned(h, "verify") /\ req[h].email = Bob
           /\ Bob \notin ApprovedEmails
           /\ req[h].res = InvalidCode

(* C20 *)

\* C20: every Session row has the sessionId, email and expiresAt it was
\* inserted with, and it was inserted with expiresAt = now + 24 hours; the
\* step of a successful validation changes nothing but last_accessed of its
\* row; and a check-session whose lookup runs after that expiresAt does not
\* answer valid:true, whatever check-session calls came before.
C20_NeverExtended ==
    /\ [](\A r \in sessions :
              \E s \in issued : /\ s.sessionId = r.sessionId
                                /\ s.email = r.email
                                /\ s.expiresAt = r.expiresAt)
    /\ [][/\ \A s \in issued' \ issued :
                s.expiresAt = now + SessionTTLHours * MinutesPerHour
          /\ \A h \in Slots :
                /\ Moved(h, "check", "cs_touch") =>
                       /\ {[r EXCEPT !.lastAccessed = NoTime] : r \in sessions'}
                              = {[r EXCEPT !.lastAccessed = NoTime] : r \in sessions}
                       /\ \A r \in sessions' \ sessions :
                              r.sessionId = req[h].sid /\ r.lastAccessed = now
                       /\ codes' = codes
                /\ (Began(h, "check")
                        /\ \E s \in issued : s.sessionId = req'[h].sid /\ now > s.expiresAt) =>
                       /\ req'[h].pc # "cs_touch"
                       /\ req'[h].res.valid # "true"
       ]_vars

\* C20 witness: a Session was validated some time after its creation, its
\* row has the expiry it was created with, and a later check-session, made
\* after that expiry, found it expired.
C20_Witness ==
    \E h \in Slots :
        /\ Returned(h, "check") /\ req[h].res = SessionExpired
        /\ \E r \in sessions, s \in issued :
               /\ r.sessionId = req[h].sid /\ s.sessionId = r.sessionId
               /\ r.lastAccessed > codes[s.row].usedAt
               /\ r.expiresAt = s.expiresAt
               /\ now > r.expiresAt

=============================================================================
